---- MODULE Spec2Model ----
(***************************************************************************)
(* FuDeviceLocker (libfwupdplugin/fu-device-locker.c): an object that      *)
(* opens a device when it is constructed and closes it when it is          *)
(* explicitly closed or finalized.                                         *)
(*                                                                         *)
(* The C functions are modelled as operators that take the arguments and   *)
(* the outcome of the collaborator call (open_func / close_func) and       *)
(* return the effects of the call; the actions apply them to the state.    *)
(***************************************************************************)
EXTENDS Naturals, Sequences, FiniteSets

VARIABLES
    have_gusb,      \* build configuration: HAVE_GUSB defined
    deviceType,     \* GType of the caller's device object
    device_refs,    \* reference count of the device object
    locker,         \* lifecycle of the FuDeviceLocker seen by the caller
    self,           \* struct _FuDeviceLocker
    calls,          \* invocations of open_func / close_func, in order
    log,            \* g_critical / g_warning / g_debug messages, in order
    ops,            \* API calls made by the caller and what they returned
    threads         \* where each thread stands inside close / finalize

vars == <<have_gusb, deviceType, device_refs, locker, self, calls, log, ops,
          threads>>

(* ------------------------------ bounds --------------------------------- *)

\* number of fu_device_locker_close() calls the caller makes on one locker
MaxCloses == 3

\* number of threads that share one locker without synchronisation
MaxThreads == 2

(* ----------------------------- vocabulary ------------------------------ *)

NULL == "NULL"
OK == "OK"

DeviceTypes == {"GUsbDevice", "FuDevice", "GObject"}

\* errors a collaborator can report, named by their C enum constant
Errors == {"G_USB_DEVICE_ERROR_NO_DEVICE", "G_USB_DEVICE_ERROR_IO",
           "G_IO_ERROR_FAILED", "FWUPD_ERROR_NOT_FOUND"}

Outcomes == {OK} \cup Errors

ErrorDomain(e) ==
    CASE e \in {"G_USB_DEVICE_ERROR_NO_DEVICE", "G_USB_DEVICE_ERROR_IO"}
            -> "G_USB_DEVICE_ERROR"
      [] e \in {"G_IO_ERROR_FAILED", "G_IO_ERROR_NOT_SUPPORTED"}
            -> "G_IO_ERROR"
      [] e = "FWUPD_ERROR_NOT_FOUND" -> "FWUPD_ERROR"
      [] OTHER -> "none"

\* the caller's GError** argument: no location, a location holding NULL,
\* or a location that already holds an error
ErrorArgs == {"NULL", "unset", "set"}

\* struct _FuDeviceLocker after g_object_new(): all fields zero
fu_device_locker_init ==
    [device |-> NULL, device_open |-> FALSE,
     open_func |-> NULL, close_func |-> NULL]

Call(via, fn, ret) == [via |-> via, fn |-> fn, ret |-> ret]
Msg(level, text) == [level |-> level, text |-> text]

(* --------------------------- GLib primitives --------------------------- *)

\* variant: compares the error domain only
g_error_matches_DomainOnly(e, domain, code) == ErrorDomain(e) = domain

g_error_matches(e, domain, code) == ErrorDomain(e) = domain /\ e = code

\* g_propagate_error (dest, src): src is freed when dest is NULL
g_propagate_error(dest, src) == IF dest = "NULL" THEN "NULL" ELSE src

\* variant: every object passes the type check
G_USB_IS_DEVICE_AnyObject(d) == have_gusb /\ d # NULL

G_USB_IS_DEVICE(d) == have_gusb /\ d # NULL /\ deviceType = "GUsbDevice"

\* variant: every object passes the type check
FU_IS_DEVICE_AnyObject(d) == d # NULL

FU_IS_DEVICE(d) == d # NULL /\ deviceType = "FuDevice"

(* ------------------------ fu_device_locker_finalize -------------------- *)

\* variant: closes whenever a device is set, open or not
fu_device_locker_finalize_ClosesUnopened(s, refs, co) ==
    [calls |-> IF s.device # NULL
               THEN << Call("close_func", s.close_func, co) >>
               ELSE << >>,
     log |-> IF s.device # NULL /\ co # OK
             THEN << Msg("warning", co) >>
             ELSE << >>,
     device_refs |-> IF s.device # NULL THEN refs - 1 ELSE refs]

\* variant: releases the device without closing it
fu_device_locker_finalize_SkipsClose(s, refs, co) ==
    [calls |-> << >>,
     log |-> << >>,
     device_refs |-> IF s.device # NULL THEN refs - 1 ELSE refs]

\* variant: returns early, keeping the device reference, when close_func fails
fu_device_locker_finalize_LeaksOnFailure(s, refs, co) ==
    [calls |-> IF s.device_open
               THEN << Call("close_func", s.close_func, co) >>
               ELSE << >>,
     log |-> IF s.device_open /\ co # OK
             THEN << Msg("warning", co) >>
             ELSE << >>,
     device_refs |-> IF s.device # NULL /\ ~(s.device_open /\ co # OK)
                     THEN refs - 1 ELSE refs]

\* s: the struct, refs: refcount of the device, co: what close_func returns
fu_device_locker_finalize(s, refs, co) ==
    [calls |-> IF s.device_open
               THEN << Call("close_func", s.close_func, co) >>
               ELSE << >>,
     log |-> IF s.device_open /\ co # OK
             THEN << Msg("warning", co) >>
             ELSE << >>,
     device_refs |-> IF s.device # NULL THEN refs - 1 ELSE refs]

(* -------------------------- fu_device_locker_close --------------------- *)

\* variant: a successful close_func leaves device_open set
fu_device_locker_close_KeepsOpenFlag(isLocker, s, errArg, co) ==
    IF ~isLocker \/ errArg = "set"
    THEN [self |-> s, ret |-> FALSE, error |-> errArg, calls |-> << >>,
          log |-> << Msg("critical", "g_return_val_if_fail") >>]
    ELSE IF ~s.device_open
    THEN [self |-> s, ret |-> TRUE, error |-> errArg, calls |-> << >>,
          log |-> << >>]
    ELSE IF co # OK
    THEN IF have_gusb /\ G_USB_IS_DEVICE(s.device)
            /\ g_error_matches(co, "G_USB_DEVICE_ERROR",
                               "G_USB_DEVICE_ERROR_NO_DEVICE")
         THEN [self |-> s, ret |-> TRUE, error |-> errArg,
               calls |-> << Call("close_func", s.close_func, co) >>,
               log |-> << Msg("debug", co) >>]
         ELSE [self |-> s, ret |-> FALSE,
               error |-> g_propagate_error(errArg, co),
               calls |-> << Call("close_func", s.close_func, co) >>,
               log |-> << >>]
    ELSE [self |-> s, ret |-> TRUE,
          error |-> errArg,
          calls |-> << Call("close_func", s.close_func, co) >>,
          log |-> << >>]

\* variant: a failed close_func is tried a second time before giving up
fu_device_locker_close_RetriesOnce(isLocker, s, errArg, co) ==
    IF ~isLocker \/ errArg = "set"
    THEN [self |-> s, ret |-> FALSE, error |-> errArg, calls |-> << >>,
          log |-> << Msg("critical", "g_return_val_if_fail") >>]
    ELSE IF ~s.device_open
    THEN [self |-> s, ret |-> TRUE, error |-> errArg, calls |-> << >>,
          log |-> << >>]
    ELSE IF co # OK
    THEN IF have_gusb /\ G_USB_IS_DEVICE(s.device)
            /\ g_error_matches(co, "G_USB_DEVICE_ERROR",
                               "G_USB_DEVICE_ERROR_NO_DEVICE")
         THEN [self |-> s, ret |-> TRUE, error |-> errArg,
               calls |-> << Call("close_func", s.close_func, co) >>,
               log |-> << Msg("debug", co) >>]
         ELSE [self |-> s, ret |-> FALSE,
               error |-> g_propagate_error(errArg, co),
               calls |-> << Call("close_func", s.close_func, co),
                            Call("close_func", s.close_func, co) >>,
               log |-> << >>]
    ELSE [self |-> [s EXCEPT !.device_open = FALSE], ret |-> TRUE,
          error |-> errArg,
          calls |-> << Call("close_func", s.close_func, co) >>,
          log |-> << >>]

\* variant: a successful close also drops the close function
fu_device_locker_close_ClearsCloseFunc(isLocker, s, errArg, co) ==
    IF ~isLocker \/ errArg = "set"
    THEN [self |-> s, ret |-> FALSE, error |-> errArg, calls |-> << >>,
          log |-> << Msg("critical", "g_return_val_if_fail") >>]
    ELSE IF ~s.device_open
    THEN [self |-> s, ret |-> TRUE, error |-> errArg, calls |-> << >>,
          log |-> << >>]
    ELSE IF co # OK
    THEN IF have_gusb /\ G_USB_IS_DEVICE(s.device)
            /\ g_error_matches(co, "G_USB_DEVICE_ERROR",
                               "G_USB_DEVICE_ERROR_NO_DEVICE")
         THEN [self |-> s, ret |-> TRUE, error |-> errArg,
               calls |-> << Call("close_func", s.close_func, co) >>,
               log |-> << Msg("debug", co) >>]
         ELSE [self |-> s, ret |-> FALSE,
               error |-> g_propagate_error(errArg, co),
               calls |-> << Call("close_func", s.close_func, co) >>,
               log |-> << >>]
    ELSE [self |-> [s EXCEPT !.device_open = FALSE, !.close_func = NULL],
          ret |-> TRUE,
          error |-> errArg,
          calls |-> << Call("close_func", s.close_func, co) >>,
          log |-> << >>]

\* isLocker: FU_IS_DEVICE_LOCKER (self); errArg: the GError** argument;
\* co: what close_func returns if it is invoked
fu_device_locker_close(isLocker, s, errArg, co) ==
    IF ~isLocker \/ errArg = "set"
    THEN [self |-> s, ret |-> FALSE, error |-> errArg, calls |-> << >>,
          log |-> << Msg("critical", "g_return_val_if_fail") >>]
    ELSE IF ~s.device_open
    THEN [self |-> s, ret |-> TRUE, error |-> errArg, calls |-> << >>,
          log |-> << >>]
    ELSE IF co # OK
    THEN IF have_gusb /\ G_USB_IS_DEVICE(s.device)
            /\ g_error_matches(co, "G_USB_DEVICE_ERROR",
                               "G_USB_DEVICE_ERROR_NO_DEVICE")
         THEN [self |-> s, ret |-> TRUE, error |-> errArg,
               calls |-> << Call("close_func", s.close_func, co) >>,
               log |-> << Msg("debug", co) >>]
         ELSE [self |-> s, ret |-> FALSE,
               error |-> g_propagate_error(errArg, co),
               calls |-> << Call("close_func", s.close_func, co) >>,
               log |-> << >>]
    ELSE [self |-> [s EXCEPT !.device_open = FALSE], ret |-> TRUE,
          error |-> errArg,
          calls |-> << Call("close_func", s.close_func, co) >>,
          log |-> << >>]

(* ------------------------ fu_device_locker_new_full -------------------- *)

\* variant: returns the locker without setting device_open
fu_device_locker_new_full_NeverMarksOpen(device, open_func, close_func, errArg, refs, oo, co) ==
    IF device = NULL \/ open_func = NULL \/ close_func = NULL
       \/ errArg = "NULL"
    THEN [ret |-> NULL, self |-> fu_device_locker_init, error |-> errArg,
          calls |-> << >>,
          log |-> << Msg("critical", "g_return_val_if_fail") >>,
          device_refs |-> refs]
    ELSE LET created == [fu_device_locker_init EXCEPT
                            !.device = device,
                            !.open_func = open_func,
                            !.close_func = close_func]
             opened == << Call("open_func", created.open_func, oo) >>
         IN  IF oo # OK
             THEN LET fin == fu_device_locker_finalize(created, refs + 1, co)
                  IN  [ret |-> NULL, self |-> created, error |-> oo,
                       calls |-> opened \o fin.calls,
                       log |-> fin.log,
                       device_refs |-> fin.device_refs]
             ELSE [ret |-> "locker",
                   self |-> created,
                   error |-> errArg,
                   calls |-> opened, log |-> << >>,
                   device_refs |-> refs + 1]

\* variant: a failed open returns without dropping the partially built locker
fu_device_locker_new_full_LeaksOnFailedOpen(device, open_func, close_func, errArg, refs, oo, co) ==
    IF device = NULL \/ open_func = NULL \/ close_func = NULL
       \/ errArg = "NULL"
    THEN [ret |-> NULL, self |-> fu_device_locker_init, error |-> errArg,
          calls |-> << >>,
          log |-> << Msg("critical", "g_return_val_if_fail") >>,
          device_refs |-> refs]
    ELSE LET created == [fu_device_locker_init EXCEPT
                            !.device = device,
                            !.open_func = open_func,
                            !.close_func = close_func]
             opened == << Call("open_func", created.open_func, oo) >>
         IN  IF oo # OK
             THEN [ret |-> NULL, self |-> created, error |-> oo,
                   calls |-> opened, log |-> << >>,
                   device_refs |-> refs + 1]
             ELSE [ret |-> "locker",
                   self |-> [created EXCEPT !.device_open = TRUE],
                   error |-> errArg,
                   calls |-> opened, log |-> << >>,
                   device_refs |-> refs + 1]

\* oo: what open_func returns; co: what close_func returns if the finalizer
\* of the partially built object invokes it
fu_device_locker_new_full(device, open_func, close_func, errArg, refs, oo, co) ==
    IF device = NULL \/ open_func = NULL \/ close_func = NULL
       \/ errArg = "NULL"
    THEN [ret |-> NULL, self |-> fu_device_locker_init, error |-> errArg,
          calls |-> << >>,
          log |-> << Msg("critical", "g_return_val_if_fail") >>,
          device_refs |-> refs]
    ELSE LET created == [fu_device_locker_init EXCEPT
                            !.device = device,
                            !.open_func = open_func,
                            !.close_func = close_func]
             opened == << Call("open_func", created.open_func, oo) >>
         IN  IF oo # OK
             THEN \* g_autoptr(FuDeviceLocker) self drops the only reference
                  LET fin == fu_device_locker_finalize(created, refs + 1, co)
                  IN  [ret |-> NULL, self |-> created, error |-> oo,
                       calls |-> opened \o fin.calls,
                       log |-> fin.log,
                       device_refs |-> fin.device_refs]
             ELSE [ret |-> "locker",
                   self |-> [created EXCEPT !.device_open = TRUE],
                   error |-> errArg,
                   calls |-> opened, log |-> << >>,
                   device_refs |-> refs + 1]

(* -------------------------- fu_device_locker_new ----------------------- *)

\* variant: the USB branch binds the generic close function
fu_device_locker_new_MixedPair(device, errArg, refs, oo, co) ==
    IF device = NULL \/ errArg = "NULL"
    THEN [ret |-> NULL, self |-> fu_device_locker_init, error |-> errArg,
          calls |-> << >>,
          log |-> << Msg("critical", "g_return_val_if_fail") >>,
          device_refs |-> refs]
    ELSE IF have_gusb /\ G_USB_IS_DEVICE(device)
    THEN fu_device_locker_new_full(device, "g_usb_device_open",
                                   "fu_device_close", errArg, refs, oo, co)
    ELSE IF FU_IS_DEVICE(device)
    THEN fu_device_locker_new_full(device, "fu_device_open",
                                   "fu_device_close", errArg, refs, oo, co)
    ELSE [ret |-> NULL, self |-> fu_device_locker_init,
          error |-> "G_IO_ERROR_NOT_SUPPORTED",
          calls |-> << >>, log |-> << >>, device_refs |-> refs]

fu_device_locker_new(device, errArg, refs, oo, co) ==
    IF device = NULL \/ errArg = "NULL"
    THEN [ret |-> NULL, self |-> fu_device_locker_init, error |-> errArg,
          calls |-> << >>,
          log |-> << Msg("critical", "g_return_val_if_fail") >>,
          device_refs |-> refs]
    ELSE IF have_gusb /\ G_USB_IS_DEVICE(device)
    THEN fu_device_locker_new_full(device, "g_usb_device_open",
                                   "g_usb_device_close", errArg, refs, oo, co)
    ELSE IF FU_IS_DEVICE(device)
    THEN fu_device_locker_new_full(device, "fu_device_open",
                                   "fu_device_close", errArg, refs, oo, co)
    ELSE [ret |-> NULL, self |-> fu_device_locker_init,
          error |-> "G_IO_ERROR_NOT_SUPPORTED",
          calls |-> << >>, log |-> << >>, device_refs |-> refs]

(* ------------------------------- actions ------------------------------- *)

\* one entry of the caller's history: the call, its arguments, what the
\* collaborator was going to answer to open_func (oo), what the call
\* returned, and the collaborator calls and messages it made
Op(name, args, oo, r, before) ==
    [op |-> name, args |-> args, oo |-> oo, ret |-> r.ret, error |-> r.error,
     open_before |-> before, calls |-> r.calls, log |-> r.log]

Threads == 1..MaxThreads

\* a thread that is not inside a function of the locker
IdleThread ==
    [op |-> "none", at |-> "idle", crashed |-> FALSE, passed |-> FALSE,
     seen |-> 0, errArg |-> "NULL", co |-> OK]

NumCloses == Cardinality({i \in 1..Len(ops) : ops[i].op = "close"})

Init ==
    /\ have_gusb \in BOOLEAN
    /\ deviceType \in (IF have_gusb THEN DeviceTypes
                                    ELSE DeviceTypes \ {"GUsbDevice"})
    /\ device_refs = 1
    /\ locker = "unconstructed"
    /\ self = fu_device_locker_init
    /\ calls = << >>
    /\ log = << >>
    /\ ops = << >>
    /\ threads = [t \in Threads |-> IdleThread]

\* what the caller holds after a constructor returned r
Constructed(name, args, oo, r) ==
    /\ locker' = IF r.ret = NULL THEN "none" ELSE "held"
    /\ self' = IF r.ret = NULL THEN fu_device_locker_init ELSE r.self
    /\ calls' = calls \o r.calls
    /\ log' = log \o r.log
    /\ device_refs' = r.device_refs
    /\ ops' = Append(ops, Op(name, args, oo, r, FALSE))
    /\ UNCHANGED <<have_gusb, deviceType, threads>>

\* locker = fu_device_locker_new (device, &error)
New ==
    /\ locker = "unconstructed"
    /\ \E device \in {NULL, "device"}, errArg \in {"NULL", "unset"},
          oo \in Outcomes, co \in Outcomes :
          Constructed("new", [self |-> NULL, device |-> device,
                              errArg |-> errArg,
                              open_func |-> NULL, close_func |-> NULL],
                      oo,
                      fu_device_locker_new(device, errArg, device_refs,
                                           oo, co))

\* locker = fu_device_locker_new_full (device, open_func, close_func, &error)
NewFull ==
    /\ locker = "unconstructed"
    /\ \E device \in {NULL, "device"},
          open_func \in {NULL, "custom_open"},
          close_func \in {NULL, "custom_close"},
          errArg \in {"NULL", "unset"},
          oo \in Outcomes, co \in Outcomes :
          Constructed("new_full", [self |-> NULL, device |-> device,
                                   errArg |-> errArg,
                                   open_func |-> open_func,
                                   close_func |-> close_func],
                      oo,
                      fu_device_locker_new_full(device, open_func, close_func,
                                                errArg, device_refs, oo, co))

\* fu_device_locker_close (locker, &error); locker may be the NULL a failed
\* constructor returned
Close ==
    /\ locker \in {"held", "none"}
    /\ NumCloses < MaxCloses
    /\ \E errArg \in ErrorArgs, co \in Outcomes :
          LET r == fu_device_locker_close(locker = "held", self, errArg, co)
          IN  /\ self' = r.self
              /\ calls' = calls \o r.calls
              /\ log' = log \o r.log
              /\ ops' = Append(ops,
                               Op("close",
                                  [self |-> IF locker = "held"
                                            THEN "locker" ELSE NULL,
                                   device |-> self.device, errArg |-> errArg,
                                   open_func |-> self.open_func,
                                   close_func |-> self.close_func],
                                  "n/a",
                                  [ret |-> IF r.ret THEN "TRUE" ELSE "FALSE",
                                   error |-> r.error, calls |-> r.calls,
                                   log |-> r.log],
                                  self.device_open))
    /\ UNCHANGED <<have_gusb, deviceType, device_refs, locker, threads>>

\* g_object_unref (locker) releasing the last reference: the finalizer runs
Unref ==
    /\ locker = "held"
    /\ \E co \in Outcomes :
          LET r == fu_device_locker_finalize(self, device_refs, co)
          IN  /\ calls' = calls \o r.calls
              /\ log' = log \o r.log
              /\ device_refs' = r.device_refs
              /\ ops' = Append(ops,
                               Op("unref",
                                  [self |-> "locker",
                                   device |-> self.device, errArg |-> "NULL",
                                   open_func |-> self.open_func,
                                   close_func |-> self.close_func],
                                  "n/a",
                                  [ret |-> "void", error |-> "NULL",
                                   calls |-> r.calls, log |-> r.log],
                                  self.device_open))
    /\ locker' = "finalized"
    /\ UNCHANGED <<have_gusb, deviceType, self, threads>>

Next == New \/ NewFull \/ Close \/ Unref

Spec == Init /\ [][Next]_vars

(* ------------------- unsynchronised use by several threads ------------- *)
(* The locker has no lock and device_open is a plain field.  Here the     *)
(* threads share one locker, each runs fu_device_locker_close or drops    *)
(* the last reference, and a function is split at the places where        *)
(* another thread can run in between: after the test of device_open and   *)
(* after the call of close_func.                                          *)

\* what close_func answers to a thread: success, the device-gone error, or
\* another error
RaceOutcomes == {OK, "G_USB_DEVICE_ERROR_NO_DEVICE", "G_IO_ERROR_FAILED"}

\* the GError** argument of a thread: a location holding NULL
RaceErrorArgs == {"unset"}

\* the struct as a thread sees it that has read device_open as v
SeenAs(v) == [self EXCEPT !.device_open = v]

CloseArgs(errArg) ==
    [self |-> "locker", device |-> self.device, errArg |-> errArg,
     open_func |-> self.open_func, close_func |-> self.close_func]

CloseResult(r, cs) ==
    [ret |-> IF r.ret THEN "TRUE" ELSE "FALSE", error |-> r.error,
     calls |-> cs, log |-> r.log]

\* fu_device_locker_close up to and including the test of device_open
CloseEnter(t) ==
    /\ threads[t].at = "idle" /\ locker = "held"
    /\ \E errArg \in RaceErrorArgs :
          LET r == fu_device_locker_close(TRUE, self, errArg, OK)
          IN  IF r.calls = << >>
              THEN \* g_return_val_if_fail, or device_open is FALSE
                   /\ threads' = [threads EXCEPT ![t] =
                         [IdleThread EXCEPT !.op = "close", !.at = "done",
                                            !.seen = Len(calls),
                                            !.errArg = errArg]]
                   /\ log' = log \o r.log
                   /\ ops' = Append(ops, Op("close", CloseArgs(errArg), "n/a",
                                            CloseResult(r, << >>),
                                            self.device_open))
              ELSE /\ threads' = [threads EXCEPT ![t] =
                         [IdleThread EXCEPT !.op = "close", !.at = "checked",
                                            !.passed = TRUE,
                                            !.seen = Len(calls),
                                            !.errArg = errArg]]
                   /\ UNCHANGED <<log, ops>>
    /\ UNCHANGED <<have_gusb, deviceType, device_refs, locker, self, calls>>

\* variant: looks at device_open again right before the call
CloseCall_Rechecks(t) ==
    /\ threads[t].op = "close" /\ threads[t].at = "checked"
    /\ ~threads[t].crashed
    /\ \E co \in RaceOutcomes :
          /\ calls' = IF self.device_open
                      THEN Append(calls, Call("close_func", self.close_func, co))
                      ELSE calls
          /\ threads' = [threads EXCEPT ![t].at = "called", ![t].co = co]
    /\ UNCHANGED <<have_gusb, deviceType, device_refs, locker, self, log, ops>>

\* self->close_func (self->device, &error_local)
CloseCall(t) ==
    /\ threads[t].op = "close" /\ threads[t].at = "checked"
    /\ ~threads[t].crashed
    /\ \E co \in RaceOutcomes :
          /\ calls' = Append(calls, Call("close_func", self.close_func, co))
          /\ threads' = [threads EXCEPT ![t].at = "called", ![t].co = co]
    /\ UNCHANGED <<have_gusb, deviceType, device_refs, locker, self, log, ops>>

\* fu_device_locker_close after close_func returned
CloseReturn(t) ==
    /\ threads[t].op = "close" /\ threads[t].at = "called"
    /\ ~threads[t].crashed
    /\ LET r == fu_device_locker_close(TRUE, SeenAs(TRUE), threads[t].errArg,
                                       threads[t].co)
       IN  /\ self' = IF r.self.device_open THEN self ELSE SeenAs(FALSE)
           /\ log' = log \o r.log
           /\ ops' = Append(ops, Op("close", CloseArgs(threads[t].errArg),
                                    "n/a", CloseResult(r, r.calls), TRUE))
    /\ threads' = [threads EXCEPT ![t].at = "done"]
    /\ UNCHANGED <<have_gusb, deviceType, device_refs, locker, calls>>

\* the last reference is dropped: fu_device_locker_finalize up to and
\* including the test of device_open
FinalizeEnter(t) ==
    /\ threads[t].at = "idle" /\ locker = "held"
    /\ \A u \in Threads : threads[u].op # "unref"
    /\ threads' = [threads EXCEPT ![t] =
          [IdleThread EXCEPT !.op = "unref",
                             !.at = IF self.device_open THEN "checked"
                                                        ELSE "called",
                             !.passed = self.device_open,
                             !.seen = Len(calls)]]
    /\ UNCHANGED <<have_gusb, deviceType, device_refs, locker, self, calls,
                   log, ops>>

\* self->close_func (self->device, &error) and the g_warning
FinalizeCall(t) ==
    /\ threads[t].op = "unref" /\ threads[t].at = "checked"
    /\ \E co \in RaceOutcomes :
          LET r == fu_device_locker_finalize(SeenAs(TRUE), device_refs, co)
          IN  /\ calls' = calls \o r.calls
              /\ log' = log \o r.log
              /\ threads' = [threads EXCEPT ![t].at = "called", ![t].co = co]
    /\ UNCHANGED <<have_gusb, deviceType, device_refs, locker, self, ops>>

\* g_object_unref (self->device) and the parent finalizer: the locker is freed
FinalizeReturn(t) ==
    /\ threads[t].op = "unref" /\ threads[t].at = "called"
    /\ LET r == fu_device_locker_finalize(SeenAs(threads[t].passed),
                                          device_refs, threads[t].co)
       IN  /\ device_refs' = r.device_refs
           /\ ops' = Append(ops,
                            Op("unref",
                               [CloseArgs("NULL") EXCEPT !.errArg = "NULL"],
                               "n/a",
                               [ret |-> "void", error |-> "NULL",
                                calls |-> r.calls, log |-> r.log],
                               threads[t].passed))
    /\ locker' = "finalized"
    /\ threads' = [threads EXCEPT ![t].at = "done"]
    /\ UNCHANGED <<have_gusb, deviceType, self, calls, log>>

\* a thread still inside fu_device_locker_close after the locker was freed
\* uses freed memory: it may go on with the stale fields, or fault
Crash(t) ==
    /\ threads[t].op = "close" /\ threads[t].at \in {"checked", "called"}
    /\ locker = "finalized" /\ ~threads[t].crashed
    /\ threads' = [threads EXCEPT ![t].crashed = TRUE]
    /\ UNCHANGED <<have_gusb, deviceType, device_refs, locker, self, calls,
                   log, ops>>

NextRace ==
    \/ New
    \/ NewFull
    \/ \E t \in Threads :
          \/ CloseEnter(t)
          \/ CloseCall(t)
          \/ CloseReturn(t)
          \/ FinalizeEnter(t)
          \/ FinalizeCall(t)
          \/ FinalizeReturn(t)
          \/ Crash(t)

SpecRace == Init /\ [][NextRace]_vars

(* ------------------------- vocabulary of the claims -------------------- *)

CloseCallsOf(cs) == Cardinality({i \in 1..Len(cs) : cs[i].via = "close_func"})

OpenCallsOf(cs) == Cardinality({i \in 1..Len(cs) : cs[i].via = "open_func"})

\* device_open of the locker right after the i-th call of the caller
OpenAfter(i) == IF i < Len(ops) THEN ops[i + 1].open_before
                                ELSE self.device_open

\* an explicit close whose preconditions hold: a real locker, and an error
\* location that does not already hold an error
ValidClose(o) ==
    o.op = "close" /\ o.args.self = "locker" /\ o.args.errArg # "set"

\* an explicit close on an open guard during which close_func failed
FailedClose(o) ==
    /\ ValidClose(o) /\ o.open_before
    /\ Len(o.calls) = 1 /\ o.calls[1].via = "close_func" /\ o.calls[1].ret # OK

\* the device-gone condition: a USB-kind device reporting "no such device"
DeviceGone(c) ==
    have_gusb /\ deviceType = "GUsbDevice"
    /\ c.ret = "G_USB_DEVICE_ERROR_NO_DEVICE"

\* a constructor call whose arguments reach the open_func call
ReachesOpen(o) ==
    /\ o.args.device # NULL /\ o.args.errArg # "NULL"
    /\ \/ o.op = "new_full" /\ o.args.open_func # NULL
                            /\ o.args.close_func # NULL
       \/ o.op = "new" /\ \/ have_gusb /\ deviceType = "GUsbDevice"
                          \/ deviceType = "FuDevice"

(* -------------------------------- C1 ----------------------------------- *)

\* C1 (as claimed): close_fn is invoked at most once in total over the
\* lifetime of a guard, whatever the explicit closes returned.
C1_CloseAtMostOnce == CloseCallsOf(calls) <= 1

\* C1 (amended): close_fn returns success at most once over the lifetime of a
\* guard and is never invoked again after it has returned success; only an
\* invocation that failed can be followed by another invocation.
C1_NoCloseAfterSuccessfulClose ==
    \A i \in 1..Len(calls) :
        (calls[i].via = "close_func" /\ calls[i].ret = OK) => i = Len(calls)

\* a destroyed guard whose close_fn failed on explicit close, succeeded on a
\* retry, and was followed by more closes and the destruction
C1_Witness ==
    /\ locker = "finalized"
    /\ CloseCallsOf(calls) = 2
    /\ calls[Len(calls)].ret = OK
    /\ NumCloses = MaxCloses

(* -------------------------------- C2 ----------------------------------- *)

\* C2: an explicit close on an open guard whose close_fn fails with the
\* device-gone condition returns success, surfaces no error, and leaves the
\* guard closed (is_open false).
C2_DeviceGoneClosesGuard ==
    \A i \in 1..Len(ops) :
        (FailedClose(ops[i]) /\ DeviceGone(ops[i].calls[1]))
            => /\ ops[i].ret = "TRUE"
               /\ ops[i].error = ops[i].args.errArg
               /\ ~OpenAfter(i)

(* -------------------------------- C3 ----------------------------------- *)

\* C3: when a first explicit close on an open guard returns success, an
\* immediately following explicit close returns success too, and close_fn
\* has been invoked exactly once across the two calls.
C3_CloseIdempotent ==
    \A i \in 1..(Len(ops) - 1) :
        (/\ ValidClose(ops[i]) /\ ops[i].open_before /\ ops[i].ret = "TRUE"
         /\ ValidClose(ops[i + 1]))
            => /\ ops[i + 1].ret = "TRUE"
               /\ CloseCallsOf(ops[i].calls \o ops[i + 1].calls) = 1

(* -------------------------------- C4 ----------------------------------- *)

\* C4: an explicit close on an open guard whose close_fn fails with an error
\* that is not the device-gone condition returns failure, hands the caller's
\* error location exactly the error close_fn produced, leaves is_open true,
\* and a following explicit close invokes close_fn again.
C4_GenuineFailureKeepsOpen ==
    \A i \in 1..Len(ops) :
        (FailedClose(ops[i]) /\ ~DeviceGone(ops[i].calls[1]))
            => /\ ops[i].ret = "FALSE"
               /\ ops[i].args.errArg = "unset"
                     => ops[i].error = ops[i].calls[1].ret
               /\ ops[i].args.errArg = "NULL" => ops[i].error = "NULL"
               /\ OpenAfter(i)
               /\ (i < Len(ops) /\ ValidClose(ops[i + 1]))
                     => /\ Len(ops[i + 1].calls) = 1
                        /\ ops[i + 1].calls[1].via = "close_func"
                        /\ ops[i + 1].calls[1].fn = ops[i].args.close_func

\* a genuine failure reported to the caller, followed by a close that
\* invoked close_fn again
C4_Witness ==
    /\ Len(ops) >= 3
    /\ FailedClose(ops[2]) /\ ~DeviceGone(ops[2].calls[1])
    /\ ops[2].error = "G_USB_DEVICE_ERROR_IO"
    /\ ValidClose(ops[3]) /\ Len(ops[3].calls) = 1

(* -------------------------------- C5 ----------------------------------- *)

\* C5: a construction with non-null device, open_fn and close_fn whose
\* open_fn succeeds returns a guard with is_open true, having invoked open_fn
\* exactly once and close_fn not at all.
C5_ConstructionOpens ==
    (Len(ops) >= 1 /\ ReachesOpen(ops[1]) /\ ops[1].oo = OK)
        => /\ ops[1].ret = "locker"
           /\ OpenAfter(1)
           /\ Len(ops[1].calls) = 1
           /\ ops[1].calls[1].via = "open_func"
           /\ ops[1].calls[1].ret = OK
           /\ ops[1].op = "new_full"
                 => ops[1].calls[1].fn = ops[1].args.open_func

\* the guard right after a successful fu_device_locker_new_full()
C5_Witness ==
    /\ Len(ops) = 1 /\ ops[1].op = "new_full" /\ ops[1].oo = OK
    /\ locker = "held" /\ self.device_open
    /\ calls = << Call("open_func", "custom_open", OK) >>

(* -------------------------------- C6 ----------------------------------- *)

\* C6: a construction whose open_fn fails returns no guard, returns exactly
\* the error open_fn produced, and never invokes close_fn: not during the
\* construction and not during the teardown of the partially built guard.
C6_FailedOpenNoGuardNoClose ==
    (Len(ops) >= 1 /\ ReachesOpen(ops[1]) /\ ops[1].oo # OK)
        => /\ ops[1].ret = NULL
           /\ locker = "none"
           /\ ops[1].error = ops[1].oo
           /\ OpenCallsOf(calls) = 1
           /\ CloseCallsOf(calls) = 0
           /\ ~OpenAfter(1)

\* a failed construction followed by a close on the NULL it returned
C6_Witness ==
    /\ Len(ops) = 2 /\ ReachesOpen(ops[1])
    /\ ops[1].oo = "G_IO_ERROR_FAILED" /\ ops[1].error = "G_IO_ERROR_FAILED"
    /\ ops[2].op = "close"

(* -------------------------------- C7 ----------------------------------- *)

\* C7: the destruction of a guard invokes close_fn exactly once if is_open is
\* true at that moment and not at all if it is false, whatever explicit
\* closes preceded it.
C7_FinalizeClosesIffOpen ==
    \A i \in 1..Len(ops) :
        ops[i].op = "unref"
            => /\ CloseCallsOf(ops[i].calls)
                    = (IF ops[i].open_before THEN 1 ELSE 0)
               /\ OpenCallsOf(ops[i].calls) = 0

\* a guard destroyed while open after an explicit close that failed
C7_Witness ==
    /\ Len(ops) = 3 /\ FailedClose(ops[2])
    /\ ops[3].op = "unref" /\ ops[3].open_before
    /\ CloseCallsOf(ops[3].calls) = 1

(* -------------------------------- C8 ----------------------------------- *)

\* C8: when close_fn fails during the implicit close at destruction, whatever
\* the failure, no error reaches a caller: the failure is recorded as one
\* warning carrying the error, and the destruction completes and releases the
\* guard's reference to the device.
C8_FinalizeFailureOnlyWarns ==
    \A i \in 1..Len(ops) :
        (ops[i].op = "unref" /\ ops[i].calls # << >>
         /\ ops[i].calls[1].ret # OK)
            => /\ ops[i].error = "NULL"
               /\ ops[i].log = << Msg("warning", ops[i].calls[1].ret) >>
               /\ locker = "finalized"
               /\ device_refs = 1

\* a USB device that is gone when the guard is destroyed
C8_Witness ==
    /\ locker = "finalized" /\ Len(ops) = 2
    /\ ops[2].calls = << Call("close_func", "g_usb_device_close",
                              "G_USB_DEVICE_ERROR_NO_DEVICE") >>
    /\ DeviceGone(ops[2].calls[1])

(* -------------------------------- C9 ----------------------------------- *)

\* C9: construct-by-inference on a device that is neither a USB device nor a
\* generic device fails with the unsupported-device-type error, returns no
\* guard, and invokes no open function and no close function.
C9_UnsupportedType ==
    (/\ Len(ops) >= 1 /\ ops[1].op = "new"
     /\ ops[1].args.device # NULL /\ ops[1].args.errArg # "NULL"
     /\ deviceType = "GObject")
        => /\ ops[1].ret = NULL
           /\ locker = "none"
           /\ ops[1].error = "G_IO_ERROR_NOT_SUPPORTED"
           /\ calls = << >>

\* fu_device_locker_new() was called on a plain GObject
C9_Witness ==
    /\ Len(ops) = 1 /\ ops[1].op = "new" /\ deviceType = "GObject"
    /\ ops[1].args.device # NULL /\ ops[1].args.errArg = "unset"
    /\ ops[1].error = "G_IO_ERROR_NOT_SUPPORTED"

(* -------------------------------- C10 ---------------------------------- *)

OpenSucceeded ==
    \E i \in 1..Len(calls) : calls[i].via = "open_func" /\ calls[i].ret = OK

\* a close completed: its close_fn call returned success, or failed and the
\* failure was swallowed as device-gone
CloseCompleted ==
    \E i \in 1..Len(ops) :
        /\ ops[i].op \in {"close", "unref"}
        /\ ops[i].calls # << >>
        /\ \/ ops[i].calls[1].ret = OK
           \/ ops[i].op = "close" /\ ops[i].ret = "TRUE"

\* C10: in every state of a guard the caller holds, is_open is true if and
\* only if open_fn has succeeded and no close has completed yet.
C10_IsOpenIffNotClosed ==
    locker = "held" => (self.device_open <=> (OpenSucceeded /\ ~CloseCompleted))

(* -------------------------------- C11 ---------------------------------- *)

\* C11: once a successfully constructed guard has been destroyed, close_fn
\* has been invoked at least once after the successful open, whether or not
\* the caller called explicit close and whatever those calls returned.
C11_NoLeak ==
    locker = "finalized"
        => /\ OpenSucceeded
           /\ \E i \in 2..Len(calls) :
                 /\ calls[i].via = "close_func"
                 /\ calls[i].fn = self.close_func
                 /\ calls[1].via = "open_func" /\ calls[1].ret = OK

\* a guard that was dropped without any explicit close
C11_Witness ==
    /\ locker = "finalized" /\ Len(ops) = 2
    /\ ops[2].op = "unref" /\ CloseCallsOf(calls) = 1

(* -------------------------------- C12 ---------------------------------- *)

\* C12: once is_open is false on a guard, no step sets it back to true, no
\* step invokes open_fn or close_fn on the guard again, and every further
\* explicit close (made with valid arguments) returns success.
C12_ClosedIsTerminal ==
    [][(locker = "held" /\ ~self.device_open)
          => /\ ~self'.device_open
             /\ calls' = calls
             /\ (Len(ops') > Len(ops) /\ ValidClose(ops'[Len(ops')]))
                   => ops'[Len(ops')].ret = "TRUE"]_vars

\* a closed guard that was closed again and then destroyed
C12_Witness ==
    /\ locker = "finalized" /\ Len(ops) = 4
    /\ ValidClose(ops[2]) /\ ops[2].open_before /\ ~ops[3].open_before
    /\ ValidClose(ops[3]) /\ ops[3].ret = "TRUE"
    /\ ops[4].op = "unref" /\ ops[4].calls = << >>
    /\ Len(calls) = 2

(* -------------------------------- C13 ---------------------------------- *)

\* C13: the guard holds exactly one reference to the device from its
\* construction to its destruction and releases it at destruction; a failed
\* construction leaves the reference count as it was; explicit close never
\* changes it.  (The caller holds the one other reference.)
C13_DeviceRefBalance ==
    device_refs = (IF locker = "held" THEN 2 ELSE 1)

\* a failed construction: the reference taken for the attempt is gone
C13_Witness ==
    /\ locker = "none" /\ Len(ops) = 1 /\ ReachesOpen(ops[1])
    /\ ops[1].oo # OK /\ OpenCallsOf(calls) = 1 /\ device_refs = 1

(* -------------------------------- C14 ---------------------------------- *)

\* C14: on explicit close, a close_fn failure is swallowed only when the
\* device is of the USB kind and the error is "no such device"; for a device
\* that is not of the USB kind every failure, that error included, is
\* returned to the caller.
C14_ClassificationByDeviceKind ==
    \A i \in 1..Len(ops) :
        FailedClose(ops[i])
            => /\ ops[i].ret = "TRUE" <=> DeviceGone(ops[i].calls[1])
               /\ deviceType # "GUsbDevice"
                     => /\ ops[i].ret = "FALSE"
                        /\ ops[i].args.errArg = "unset"
                              => ops[i].error = ops[i].calls[1].ret

\* a generic device whose close reports the USB "no such device" error in a
\* build with USB support: the error is returned
C14_Witness ==
    /\ have_gusb /\ deviceType = "FuDevice" /\ Len(ops) = 2
    /\ FailedClose(ops[2])
    /\ ops[2].calls[1].ret = "G_USB_DEVICE_ERROR_NO_DEVICE"
    /\ ops[2].ret = "FALSE"
    /\ ops[2].error = "G_USB_DEVICE_ERROR_NO_DEVICE"

(* -------------------------------- C15 ---------------------------------- *)

\* the open / close pair of a device kind
PairOf(type) ==
    IF type = "GUsbDevice"
    THEN [open_func |-> "g_usb_device_open", close_func |-> "g_usb_device_close"]
    ELSE [open_func |-> "fu_device_open", close_func |-> "fu_device_close"]

\* C15: construct-by-inference binds the open / close pair of the kind of
\* the device, and every close function invoked later by an explicit or an
\* implicit close is the one of the kind whose open function was invoked at
\* construction.
C15_MatchedPair ==
    (Len(ops) >= 1 /\ ops[1].op = "new")
        => /\ locker = "held"
                 => /\ self.open_func = PairOf(deviceType).open_func
                    /\ self.close_func = PairOf(deviceType).close_func
           /\ \A i \in 1..Len(calls) :
                 calls[i].fn = (IF calls[i].via = "open_func"
                                THEN PairOf(deviceType).open_func
                                ELSE PairOf(deviceType).close_func)

\* a USB device opened by inference, closed explicitly with a failure and
\* then closed by the destruction
C15_Witness ==
    /\ Len(ops) = 3 /\ ops[1].op = "new" /\ deviceType = "GUsbDevice"
    /\ locker = "finalized"
    /\ Len(calls) = 3
    /\ calls[1].fn = "g_usb_device_open"
    /\ calls[2].fn = "g_usb_device_close"
    /\ calls[3].fn = "g_usb_device_close"

(* -------------------------------- C16 ---------------------------------- *)

\* C16: a construction invokes open_fn exactly once, whether it succeeds or
\* fails; an explicit close invokes close_fn at most once and a destruction
\* invokes close_fn at most once; no operation repeats a call that failed.
C16_NoRetry ==
    \A i \in 1..Len(ops) :
        /\ ops[i].op \in {"new", "new_full"}
              => /\ OpenCallsOf(ops[i].calls)
                       = (IF ReachesOpen(ops[i]) THEN 1 ELSE 0)
                 /\ CloseCallsOf(ops[i].calls) = 0
        /\ ops[i].op \in {"close", "unref"}
              => /\ OpenCallsOf(ops[i].calls) = 0
                 /\ CloseCallsOf(ops[i].calls) <= 1

\* an explicit close and a destruction that each saw close_fn fail and each
\* called it once
C16_Witness ==
    /\ Len(ops) = 3 /\ locker = "finalized"
    /\ FailedClose(ops[2])
    /\ ops[3].calls # << >> /\ ops[3].calls[1].ret # OK
    /\ Len(calls) = 3

(* -------------------------------- C18 ---------------------------------- *)

\* C18: an explicit close, whatever its outcome, leaves the device
\* reference, open_fn and close_fn of the guard as the construction set
\* them; the only field it can change is is_open, and only from true to
\* false.
C18_CloseFrame ==
    [][(Len(ops') > Len(ops) /\ ops'[Len(ops')].op = "close")
          => /\ self'.device = self.device
             /\ self'.open_func = self.open_func
             /\ self'.close_func = self.close_func
             /\ self'.device_open # self.device_open
                   => (self.device_open /\ ~self'.device_open)
             /\ (locker = "held" /\ ops[1].op = "new_full")
                   => /\ self'.device = ops[1].args.device
                      /\ self'.open_func = ops[1].args.open_func
                      /\ self'.close_func = ops[1].args.close_func]_vars

\* a guard right after a successful explicit close
C18_Witness ==
    /\ locker = "held" /\ Len(ops) = 2 /\ ops[1].op = "new_full"
    /\ ValidClose(ops[2]) /\ ops[2].open_before
    /\ self = [device |-> "device", device_open |-> FALSE,
               open_func |-> "custom_open", close_func |-> "custom_close"]

(* -------------------------------- C17 ---------------------------------- *)

\* the threads that found is_open true and have made their call
PassedAndCalled ==
    {t \in Threads : threads[t].passed /\ threads[t].at \in {"called", "done"}}

\* C17: nothing inside the guard keeps two threads apart: every thread that
\* has passed the is_open check invokes close_fn, whatever another thread
\* did to the guard in between, so close_fn is invoked once per thread that
\* passed the check, on the same device and with the same function.
C17_EveryPassedCheckCalls ==
    /\ CloseCallsOf(calls) = Cardinality(PassedAndCalled)
    /\ \A i \in 1..Len(calls) :
          calls[i].via = "close_func" => calls[i].fn = self.close_func

\* two explicit closes that both passed the is_open check before either
\* called close_fn: close_fn returned success to the first and was invoked
\* again by the second
C17_Witness ==
    /\ \A t \in {1, 2} :
          /\ threads[t].op = "close" /\ threads[t].at = "done"
          /\ threads[t].passed /\ threads[t].seen = 1
    /\ Len(calls) = 3
    /\ calls[2].via = "close_func" /\ calls[2].ret = OK
    /\ calls[3].via = "close_func"

\* an explicit close and the destruction that both passed the is_open check
\* before either called close_fn
C17_WitnessFinalize ==
    /\ threads[1].op = "close" /\ threads[2].op = "unref"
    /\ \A t \in {1, 2} :
          threads[t].at = "done" /\ threads[t].passed /\ threads[t].seen = 1
    /\ CloseCallsOf(calls) = 2

====
